---- MODULE Spec2Model ----
(***************************************************************************)
(* Model of pbalign/alignservice/bowtie.py: the BowtieService adapter.     *)
(*                                                                         *)
(* A Python string is a sequence of one-character strings, so that         *)
(* str.split, str.join, int() and the os.path functions are computed on    *)
(* the characters as Python computes them.  The Python value None is the   *)
(* one-element sequence <<"None">>, which no character sequence equals.    *)
(* A structured option that holds an integer is held as its decimal text:  *)
(* the code reads these fields only through int(), format() and != "",    *)
(* which do not tell the integer 5 from the text "5".                      *)
(***************************************************************************)
EXTENDS Integers, Sequences, FiniteSets, TLC

VARIABLES
    pc,          \* position: which method runs and where it is
    options,     \* the options object handed to the method
    options0,    \* the fields of options when the method was called
    items, i,    \* locals of _resolveAlgorithmOptions
    iters,       \* iterations the while loop of lines 114-158 has begun
    err,         \* the exception that reached the caller, NoExc if none
    cmdStr,      \* the string _toCmd returned, None before
    files,       \* the file names and root directory handed to the method
    proc,        \* what backticks returned for the indexing subprocess
    indexFiles,  \* local of _preProcess
    nReg,        \* number of index files the loop of _preProcess has visited
    calls,       \* calls made to the collaborators, in order
    ret          \* the value _preProcess returned, None before

vars == <<pc, options, options0, items, i, iters, err, cmdStr, files, proc,
          indexFiles, nReg, calls, ret>>

(***************************************************************************)
(* Bounds of the model.                                                    *)
(***************************************************************************)
\* largest number of space-separated words in an algorithmOptions input
MaxTokens == 3

\* iterations after which the model stops following a scan
IterCap == 2 * MaxTokens + 2

(***************************************************************************)
(* Python values and string helpers.                                       *)
(***************************************************************************)
None == <<"None">>

SP == " "

DigitChars == <<"0", "1", "2", "3", "4", "5", "6", "7", "8", "9">>

IsDigit(c) == \E d \in 1..10 : DigitChars[d] = c

DigitVal(c) == (CHOOSE d \in 1..10 : DigitChars[d] = c) - 1

\* value of a non-empty sequence of digit characters
RECURSIVE DigitsVal(_)
DigitsVal(s) ==
    IF Len(s) = 0 THEN 0
    ELSE 10 * DigitsVal(SubSeq(s, 1, Len(s) - 1)) + DigitVal(s[Len(s)])

AllDigits(s) == Len(s) > 0 /\ \A k \in 1..Len(s) : IsDigit(s[k])

\* int(s) accepts an optional sign followed by at least one digit
IntOk(s) ==
    /\ s # None
    /\ Len(s) > 0
    /\ IF s[1] \in {"-", "+"} THEN AllDigits(Tail(s)) ELSE AllDigits(s)

IntVal(s) ==
    IF s[1] = "-" THEN 0 - DigitsVal(Tail(s))
    ELSE IF s[1] = "+" THEN DigitsVal(Tail(s))
    ELSE DigitsVal(s)

\* decimal text of a natural number, as "{n}".format(n=val) writes it
RECURSIVE NatStr(_)
NatStr(n) ==
    IF n < 10 THEN <<DigitChars[n + 1]>>
    ELSE NatStr(n \div 10) \o <<DigitChars[(n % 10) + 1]>>

IntStr(n) == IF n < 0 THEN <<"-">> \o NatStr(0 - n) ELSE NatStr(n)

\* index of the first occurrence of c in s, 0 if there is none
FirstIdx(s, c) ==
    IF \E k \in 1..Len(s) : s[k] = c
    THEN CHOOSE k \in 1..Len(s) : s[k] = c /\ \A j \in 1..(k - 1) : s[j] # c
    ELSE 0

\* index of the last occurrence of c in s, 0 if there is none (str.rfind + 1)
LastIdx(s, c) ==
    IF \E k \in 1..Len(s) : s[k] = c
    THEN CHOOSE k \in 1..Len(s) : s[k] = c /\ \A j \in (k + 1)..Len(s) : s[j] # c
    ELSE 0

\* s.split(' '): one more piece than there are spaces, empty pieces kept
RECURSIVE Split(_)
Split(s) ==
    LET k == FirstIdx(s, SP) IN
    IF k = 0 THEN <<s>>
    ELSE <<SubSeq(s, 1, k - 1)>> \o Split(SubSeq(s, k + 1, Len(s)))

\* " ".join(l)
RECURSIVE Join(_)
Join(l) ==
    IF Len(l) = 0 THEN <<>>
    ELSE IF Len(l) = 1 THEN l[1]
    ELSE l[1] \o <<SP>> \o Join(Tail(l))

\* del l[a:b] with 0-based slice bounds a <= b, clipped to the list
DelSlice(l, a, b) ==
    LET hi == IF b > Len(l) THEN Len(l) ELSE b IN
    SubSeq(l, 1, a) \o SubSeq(l, hi + 1, Len(l))

(***************************************************************************)
(* os.path functions used by bt2BaseName.                                  *)
(***************************************************************************)
\* posixpath.basename: what follows the last "/"
Basename(p) == SubSeq(p, LastIdx(p, "/") + 1, Len(p))

\* posixpath.splitext(p)[0]: cut at the last dot of the last component,
\* unless only dots precede it in that component
SplitextRoot(p) ==
    LET sep == LastIdx(p, "/")
        dot == LastIdx(p, ".")
    IN  IF dot > sep /\ \E k \in (sep + 1)..(dot - 1) : p[k] # "."
        THEN SubSeq(p, 1, dot - 1)
        ELSE p

\* posixpath.join(a, b)
PathJoin(a, b) ==
    IF Len(b) > 0 /\ b[1] = "/" THEN b
    ELSE IF Len(a) = 0 \/ a[Len(a)] = "/" THEN a \o b
    ELSE a \o <<"/">> \o b

(***************************************************************************)
(* Module-level functions of bowtie.py.                                    *)
(***************************************************************************)
bt2BaseName(tempDir, refFile) == PathJoin(tempDir, SplitextRoot(Basename(refFile)))

exts == << <<"1", ".", "b", "t", "2">>,
           <<"2", ".", "b", "t", "2">>,
           <<"3", ".", "b", "t", "2">>,
           <<"4", ".", "b", "t", "2">>,
           <<"r", "e", "v", ".", "1", ".", "b", "t", "2">>,
           <<"r", "e", "v", ".", "2", ".", "b", "t", "2">> >>

bt2IndexFiles(baseName) == [e \in 1..Len(exts) |-> baseName \o <<".">> \o exts[e]]

(***************************************************************************)
(* Literals of BowtieService.                                              *)
(***************************************************************************)
flagK == <<"-", "k">>
flagL == <<"-", "L">>
flagP == <<"-", "p">>
flagX == <<"-", "x">>
flagS == <<"-", "S">>
flagF == <<"-", "f">>
flagSeed == <<"-", "-", "s", "e", "e", "d">>
flagHelp == <<"-", "-", "h", "e", "l", "p">>
flagVersion == <<"-", "-", "v", "e", "r", "s", "i", "o", "n">>

progName == <<"b", "o", "w", "t", "i", "e", "2">>

ignoredBinaryOptions ==
    { flagX, flagS,
      <<"-", "1">>, <<"-", "2">>, <<"-", "U">>,
      <<"-", "r">>, <<"-", "q">>, <<"-", "-", "q", "s", "e", "q">>,
      flagSeed }

ignoredUnitaryOptions == { flagVersion, flagHelp }

(***************************************************************************)
(* Exceptions.  An exception is its Python type, the source line that      *)
(* raises it, what it is about and the text it carries.  For the exception *)
(* raised by the handler of lines 159-163, inner and innerLine are the     *)
(* type and the line of the exception it caught (str(e) is part of its     *)
(* message) and text is the raw algorithmOptions the message quotes.       *)
(***************************************************************************)
NoExc == [type |-> "none", line |-> 0, about |-> "none",
          inner |-> "none", innerLine |-> 0, text |-> <<>>]

Exc(t, l, a) == [NoExc EXCEPT !.type = t, !.line = l, !.about = a]

\* lines 150-152: a non-empty errMsg is raised as ValueError(errMsg)
RaiseErrMsg(a) == Exc("ValueError", 152, a)

\* lines 159-163: every exception of the scan is caught and replaced by a
\* ValueError whose message is built from the raw string and str(e)
Handler(e, o) ==
    [type |-> "ValueError", line |-> 163, about |-> e.about,
     inner |-> e.type, innerLine |-> e.line, text |-> o.algorithmOptions]

(***************************************************************************)
(* One iteration of the loop of _resolveAlgorithmOptions (lines 114-158).  *)
(* idx is the 0-based index i; its[idx + 1] is items[i].  The result is    *)
(* the exception raised, if any, and the options, items and i reached.     *)
(***************************************************************************)
Raised(e, o, its, idx) == [exc |-> e, o |-> o, its |-> its, idx |-> idx]

\* val = int(items[i+1]) at the given line: IndexError when there is no
\* next item, ValueError when it is not an integer literal
IntArg(its, idx, l) ==
    IF idx + 2 > Len(its) THEN Exc("IndexError", l, "items")
    ELSE IF ~IntOk(its[idx + 2]) THEN Exc("ValueError", l, "items")
    ELSE NoExc

\* "field is not None and int(field) != val" (lines 118-119, 127-128)
Conflicts(field, val, l) ==
    IF field = None THEN NoExc
    ELSE IF ~IntOk(field) THEN Exc("ValueError", l, "field")
    ELSE IF IntVal(field) # val THEN Exc("Conflict", l, "field")
    ELSE NoExc

\* the index moved on after the deletion
DeletePair_Advance(o, its, idx) ==
    [exc |-> NoExc, o |-> o, its |-> DelSlice(its, idx, idx + 2), idx |-> idx + 1]

\* line 158: del items[i:i+2], the index stays
DeletePair(o, its, idx) ==
    [exc |-> NoExc, o |-> o, its |-> DelSlice(its, idx, idx + 2), idx |-> idx]

\* the parsed value stored into maxHits before the comparison
BranchK_StoreFirst(o, its, idx) ==
    LET a == IntArg(its, idx, 117) IN
    IF a # NoExc THEN Raised(a, o, its, idx)
    ELSE LET val == IntVal(its[idx + 2])
             c == Conflicts(o.maxHits, val, 119)
             o2 == [o EXCEPT !.maxHits = IntStr(val)]
         IN  IF c.type = "Conflict" THEN Raised(RaiseErrMsg("-k"), o2, its, idx)
             ELSE IF c # NoExc THEN Raised(c, o2, its, idx)
             ELSE DeletePair(o2, its, idx)

\* lines 116-124, then 150-158
BranchK(o, its, idx) ==
    LET a == IntArg(its, idx, 117) IN
    IF a # NoExc THEN Raised(a, o, its, idx)
    ELSE LET c == Conflicts(o.maxHits, IntVal(its[idx + 2]), 119) IN
         IF c.type = "Conflict" THEN Raised(RaiseErrMsg("-k"), o, its, idx)
         ELSE IF c # NoExc THEN Raised(c, o, its, idx)
         ELSE DeletePair(o, its, idx)

\* lines 125-133, then 150-158
BranchL(o, its, idx) ==
    LET a == IntArg(its, idx, 126) IN
    IF a # NoExc THEN Raised(a, o, its, idx)
    ELSE LET c == Conflicts(o.minAnchorSize, IntVal(its[idx + 2]), 128) IN
         IF c.type = "Conflict" THEN Raised(RaiseErrMsg("-L"), o, its, idx)
         ELSE IF c # NoExc THEN Raised(c, o, its, idx)
         ELSE DeletePair(o, its, idx)

\* lines 134-140, then 154-158.  When nproc is not None the condition goes
\* on to read options.npoc, an attribute the options object does not have.
BranchP(o, its, idx) ==
    LET a == IntArg(its, idx, 135) IN
    IF a # NoExc THEN Raised(a, o, its, idx)
    ELSE IF o.nproc = None
         THEN DeletePair([o EXCEPT !.nproc = IntStr(IntVal(its[idx + 2]))], its, idx)
         ELSE Raised(Exc("AttributeError", 138, "npoc"), o, its, idx)

\* the flag skipped, as an unrecognized token is
BranchIgnoredBinary_Skip(o, its, idx) ==
    [exc |-> NoExc, o |-> o, its |-> its, idx |-> idx + 1]

\* lines 141-142: pass, which falls through to line 158
BranchIgnoredBinary(o, its, idx) == DeletePair(o, its, idx)

\* the empty slice items[i:i] deleted
BranchIgnoredUnitary_NoDelete(o, its, idx) ==
    [exc |-> NoExc, o |-> o, its |-> DelSlice(its, idx, idx), idx |-> idx]

\* lines 143-145: del items[i:i+1]; continue
BranchIgnoredUnitary(o, its, idx) ==
    [exc |-> NoExc, o |-> o, its |-> DelSlice(its, idx, idx + 1), idx |-> idx]

\* lines 146-148: i += 1; continue
BranchOther(o, its, idx) ==
    [exc |-> NoExc, o |-> o, its |-> its, idx |-> idx + 1]

ScanIteration(o, its, idx) ==
    LET item == its[idx + 1] IN
    IF item = flagK THEN BranchK(o, its, idx)
    ELSE IF item = flagL THEN BranchL(o, its, idx)
    ELSE IF item = flagP THEN BranchP(o, its, idx)
    ELSE IF item \in ignoredBinaryOptions THEN BranchIgnoredBinary(o, its, idx)
    ELSE IF item \in ignoredUnitaryOptions THEN BranchIgnoredUnitary(o, its, idx)
    ELSE BranchOther(o, its, idx)

(***************************************************************************)
(* _toCmd (lines 226-260).                                                 *)
(***************************************************************************)
_toCmd(o, fn, defaultRootDir) ==
    LET c0 == progName \o <<SP>>
        c1 == IF o.maxHits # None /\ o.maxHits # <<>>
              THEN c0 \o <<SP>> \o flagK \o <<SP>> \o o.maxHits ELSE c0
        c2 == IF o.nproc # None /\ o.nproc # <<>>
              THEN c1 \o <<SP>> \o flagP \o <<SP>> \o o.nproc ELSE c1
        c3 == IF o.algorithmOptions # None
              THEN c2 \o <<SP>> \o o.algorithmOptions \o <<SP>> ELSE c2
        c4 == IF o.seed # None /\ o.seed # <<>>
              THEN c3 \o <<SP>> \o flagSeed \o <<SP>> \o o.seed \o <<SP>> ELSE c3
        refBaseName == bt2BaseName(defaultRootDir, fn.targetFileName)
    IN  c4 \o flagX \o <<SP>> \o refBaseName \o <<SP>>
           \o flagF \o <<SP>> \o fn.queryFileName \o <<SP>>
           \o flagS \o <<SP>> \o fn.alignerSamOut \o <<SP>>

(***************************************************************************)
(* _bt2BuildIndex (lines 170-194).  bt is what backticks returned: the     *)
(* exit code and the diagnostic text of the subprocess.                    *)
(***************************************************************************)
buildCmd == <<"b", "o", "w", "t", "i", "e", "2", "-", "b", "u", "i", "l", "d",
              " ", "-", "q", " ", "-", "f", " ">>

_bt2BuildIndexCmd(tempDir, referenceFile) ==
    buildCmd \o referenceFile \o <<SP>> \o bt2BaseName(tempDir, referenceFile)

\* the exit code not looked at
_bt2BuildIndex_NoCheck(tempDir, referenceFile, bt) ==
    [exc |-> NoExc, files |-> bt2IndexFiles(bt2BaseName(tempDir, referenceFile))]

_bt2BuildIndex(tempDir, referenceFile, bt) ==
    IF bt.errCode # 0
    THEN [exc |-> [Exc("RuntimeError", 192, "bowtie2-build") EXCEPT !.text = bt.errMsg],
          files |-> <<>>]
    ELSE [exc |-> NoExc, files |-> bt2IndexFiles(bt2BaseName(tempDir, referenceFile))]

Call(f, a, own) == [fn |-> f, arg |-> a, own |-> own]

(***************************************************************************)
(* Inputs.                                                                 *)
(***************************************************************************)
\* words an algorithmOptions input is made of; the empty word gives the
\* empty string and doubled, leading and trailing spaces
Words == { flagK, flagL, flagP, flagX, <<"-", "1">>, flagHelp, flagVersion,
           <<"5">>, <<"a">>, <<>> }

WordLists == UNION { [1..n -> Words] : n \in 1..MaxTokens }

AlgorithmOptions == {None} \cup { Join(l) : l \in WordLists }

\* the options objects _resolveAlgorithmOptions is called with
ResolveOptions ==
    [ maxHits : {None, <<>>, <<"3">>, <<"5">>},
      minAnchorSize : {None, <<"3">>},
      nproc : {None, <<"5">>},
      seed : {None, <<"7">>},
      algorithmOptions : AlgorithmOptions ]

\* the options objects _toCmd is called with
CmdOptions ==
    [ maxHits : {None, <<>>, <<"5">>},
      minAnchorSize : {None, <<"3">>},
      nproc : {None, <<>>, <<"4">>},
      seed : {None, <<>>, <<"0">>},
      algorithmOptions : {None, <<>>, <<"a">>, <<"-", "N", " ", "1">>,
                          <<"a", " ", " ", "b">>} ]

NoOptions ==
    [ maxHits |-> None, minAnchorSize |-> None, nproc |-> None, seed |-> None,
      algorithmOptions |-> None ]

RootDirs == { <<"/", "t">>, <<"/", "t", "/">>, <<>> }

RefFiles == { <<"/", "d", "/", "r", ".", "f", "a">>,
              <<"r", ".", "f", "a">>,
              <<"/", "d", "/", ".", "h">>,
              <<"/", "d", ".", "x", "/", "r">>,
              <<"/", "d", "/", "a", ".", "b", ".", "f", "a">>,
              <<"/", "d", "/">> }

QueryFile == <<"/", "q", ".", "f", "a">>
SamOut == <<"/", "o", ".", "s", "a", "m">>
InputFile == <<"/", "m", ".", "h", "5">>

NoFiles ==
    [ targetFileName |-> None, queryFileName |-> None, alignerSamOut |-> None,
      defaultRootDir |-> None, referenceFile |-> None, inputFileName |-> None ]

\* what backticks can return for the indexing subprocess
Backticks ==
    { [errCode |-> 0, errMsg |-> <<>>],
      [errCode |-> 0, errMsg |-> <<"w">>],
      [errCode |-> 1, errMsg |-> <<"b", "a", "d">>],
      [errCode |-> 2, errMsg |-> <<>>] }

NoProc == [errCode |-> 0, errMsg |-> None]

(***************************************************************************)
(* The state machine: one service object, one method call on it.           *)
(***************************************************************************)
Init ==
    /\ pc = "idle"
    /\ options = NoOptions
    /\ options0 = NoOptions
    /\ items = <<>>
    /\ i = 0
    /\ iters = 0
    /\ err = NoExc
    /\ cmdStr = None
    /\ files = NoFiles
    /\ proc = NoProc
    /\ indexFiles = <<>>
    /\ nReg = 0
    /\ calls = <<>>
    /\ ret = None

\* lines 102-112: entry of _resolveAlgorithmOptions
ResolveEntry(o) ==
    /\ options0' = o
    /\ options' = o
    /\ IF o.algorithmOptions = None
       THEN /\ pc' = "resolved"
            /\ UNCHANGED <<items, i>>
       ELSE /\ pc' = "scan"
            /\ items' = Split(o.algorithmOptions)
            /\ i' = 0
    /\ iters' = 0
    /\ UNCHANGED <<err, cmdStr, files, proc, indexFiles, nReg, calls, ret>>

\* lines 114-163: one iteration of the while loop
ScanStep ==
    /\ pc = "scan"
    /\ i < Len(items)
    /\ iters < IterCap
    /\ iters' = iters + 1
    /\ LET r == ScanIteration(options, items, i) IN
       /\ options' = r.o
       /\ items' = r.its
       /\ i' = r.idx
       /\ IF r.exc # NoExc
          THEN pc' = "failed" /\ err' = Handler(r.exc, r.o)
          ELSE pc' = "scan" /\ err' = err
    /\ UNCHANGED <<options0, cmdStr, files, proc, indexFiles, nReg, calls, ret>>

\* lines 114, 165-168: the loop ends, the items are joined and stored
ResolveReturn ==
    /\ pc = "scan"
    /\ i >= Len(items)
    /\ options' = [options EXCEPT !.algorithmOptions = Join(items)]
    /\ pc' = "resolved"
    /\ UNCHANGED <<options0, items, i, iters, err, cmdStr, files, proc, indexFiles,
                   nReg, calls, ret>>

\* lines 226-260
ToCmd(o, target, root) ==
    /\ options0' = o
    /\ options' = o
    /\ files' = [NoFiles EXCEPT !.targetFileName = target,
                               !.queryFileName = QueryFile,
                               !.alignerSamOut = SamOut,
                               !.defaultRootDir = root]
    /\ cmdStr' = _toCmd(o, files', root)
    /\ pc' = "cmd_done"
    /\ UNCHANGED <<items, i, iters, err, proc, indexFiles, nReg, calls, ret>>

\* lines 216-217 with 181-194: _preProcess builds the index
PreProcessBuild(root, ref, bt) ==
    /\ files' = [NoFiles EXCEPT !.referenceFile = ref,
                               !.inputFileName = InputFile,
                               !.defaultRootDir = root]
    /\ calls' = <<Call("backticks", _bt2BuildIndexCmd(root, ref), FALSE)>>
    /\ proc' = bt
    /\ LET r == _bt2BuildIndex(root, ref, bt) IN
       /\ indexFiles' = r.files
       /\ IF r.exc # NoExc
          THEN pc' = "pre_failed" /\ err' = r.exc
          ELSE pc' = "pre_register" /\ err' = err
    /\ UNCHANGED <<options, options0, items, i, iters, cmdStr, nReg, ret>>

\* lines 220-221: one iteration of the registration loop
Register ==
    /\ pc = "pre_register"
    /\ nReg < Len(indexFiles)
    /\ calls' = Append(calls, Call("RegisterExistingTmpFile", indexFiles[nReg + 1], TRUE))
    /\ nReg' = nReg + 1
    /\ UNCHANGED <<pc, options, options0, items, i, iters, err, cmdStr, files, proc,
                   indexFiles, ret>>

\* line 224: the converter is called and its result returned
Convert ==
    /\ pc = "pre_register"
    /\ nReg >= Len(indexFiles)
    /\ calls' = Append(calls, Call("_pls2fasta", files.inputFileName, FALSE))
    /\ ret' = QueryFile
    /\ pc' = "pre_done"
    /\ UNCHANGED <<options, options0, items, i, iters, err, cmdStr, files, proc,
                   indexFiles, nReg>>

\* the caller calls one of the three methods with inputs of its choice
CallResolve ==
    /\ pc = "idle"
    /\ \E o \in ResolveOptions : ResolveEntry(o)

CallToCmd ==
    /\ pc = "idle"
    /\ \E o \in CmdOptions, target \in RefFiles, root \in RootDirs :
          ToCmd(o, target, root)

CallPreProcess ==
    /\ pc = "idle"
    /\ \E root \in RootDirs, ref \in RefFiles, bt \in Backticks :
          PreProcessBuild(root, ref, bt)

Next ==
    \/ CallResolve
    \/ ScanStep
    \/ ResolveReturn
    \/ CallToCmd
    \/ CallPreProcess
    \/ Register
    \/ Convert

Spec == Init /\ [][Next]_vars

(***************************************************************************)
(* Vocabulary of the properties.                                           *)
(***************************************************************************)
\* the tokens of the raw string the call started with
Orig == Split(options0.algorithmOptions)

\* the tokens of the string the call stored back
Result == Split(options.algorithmOptions)

HasToken(l, set) == \E j \in 1..Len(l) : l[j] \in set

\* position j of l holds a flag followed by an integer literal
IsPair(l, j, flag) == j < Len(l) /\ l[j] = flag /\ IntOk(l[j + 1])

\* the field holds the integer n
HoldsInt(field, n) == IntOk(field) /\ IntVal(field) = n

\* the scan is at a token of the given set
ScanAt(set) == pc = "scan" /\ i < Len(items) /\ items[i + 1] \in set

\* the scan is at a flag that is followed by an integer literal
ScanAtPair(flag) == ScanAt({flag}) /\ IsPair(items, i + 1, flag)

Finished == pc \in {"resolved", "failed"}

\* the error that reached the caller was raised for a conflict, at line 152
IsConflictError(e) == e.type = "ValueError" /\ e.line = 152

\* the error that reached the caller is the one the handler of the scan builds
IsReconciliationError(e) == e.type = "ValueError" /\ e.line = 163

(***************************************************************************)
(* C1: when algorithmOptions contains the pair "-k N" and maxHits is       *)
(* unset, a successful _resolveAlgorithmOptions leaves maxHits equal to N  *)
(* and leaves no "-k" token in algorithmOptions.                           *)
(***************************************************************************)
C1_KCarriedByMaxHits ==
    (pc = "resolved" /\ options0.algorithmOptions # None /\ options0.maxHits = None)
        => \A j \in 1..Len(Orig) :
              IsPair(Orig, j, flagK)
                 => /\ HoldsInt(options.maxHits, IntVal(Orig[j + 1]))
                    /\ ~HasToken(Result, {flagK})

(***************************************************************************)
(* C2: when the scan reaches "-p N", for every prior value of nproc, the   *)
(* step does not fail and nproc is N afterwards.                           *)
(***************************************************************************)
C2_PNeverFails ==
    [][ScanAtPair(flagP)
          => /\ pc' # "failed"
             /\ HoldsInt(options'.nproc, IntVal(items[i + 2]))]_vars

(***************************************************************************)
(* C3: when the scan reaches "-k N" with maxHits set to M # N, or "-L N"   *)
(* with minAnchorSize set to M # N, the call fails and the error that      *)
(* reaches the caller is the conflict error, not the error kind of the     *)
(* tokenizing and parsing failures.                                        *)
(***************************************************************************)
C3_ConflictErrorSurfaced ==
    [][(\/ ScanAtPair(flagK) /\ IntOk(options.maxHits)
              /\ IntVal(options.maxHits) # IntVal(items[i + 2])
        \/ ScanAtPair(flagL) /\ IntOk(options.minAnchorSize)
              /\ IntVal(options.minAnchorSize) # IntVal(items[i + 2]))
          => /\ pc' = "failed"
             /\ IsConflictError(err')
             /\ ~IsReconciliationError(err')]_vars

WellFormedFlags ==
    \A j \in 1..Len(Orig) :
       /\ Orig[j] \in {flagK, flagL, flagP} => j < Len(Orig) /\ IntOk(Orig[j + 1])
       /\ Orig[j] = flagK
             => options0.maxHits = None
                \/ HoldsInt(options0.maxHits, IntVal(Orig[j + 1]))
       /\ Orig[j] = flagL
             => options0.minAnchorSize = None
                \/ HoldsInt(options0.minAnchorSize, IntVal(Orig[j + 1]))

C5_UnitaryFlagsStripped ==
    (/\ Finished
     /\ options0.algorithmOptions # None
     /\ HasToken(Orig, ignoredUnitaryOptions)
     /\ WellFormedFlags)
        => /\ pc = "resolved"
           /\ ~HasToken(Result, ignoredUnitaryOptions)

(***************************************************************************)
(* C6: _toCmd emits, in this order: the program token, "-k <maxHits>" iff  *)
(* maxHits is set and non-empty, "-p <nproc>" iff nproc is set and         *)
(* non-empty, algorithmOptions verbatim iff it is not unset, "--seed       *)
(* <seed>" iff seed is set and non-empty, then "-x <indexBase> -f          *)
(* <queryFile> -S <outFile>", indexBase being the root directory joined    *)
(* with the stem of the target file; nothing else.                         *)
(***************************************************************************)
IsSet(v) == v # None /\ v # <<>>

NonEmpty(l) == SelectSeq(l, LAMBDA t : t # <<>>)

\* the words of a string: what separates them is any run of spaces
WordsOf(s) == NonEmpty(Split(s))

\* sub occurs in s as one contiguous piece
IsInfix(sub, s) ==
    \E a \in 0..(Len(s) - Len(sub)) : SubSeq(s, a + 1, a + Len(sub)) = sub

\* the file name without its directories and without its last extension;
\* a name made of dots and one last dot-free piece has no extension
StemOf(path) ==
    LET name == CHOOSE n \in { SubSeq(path, a, Len(path)) : a \in 1..(Len(path) + 1) } :
                    /\ \A j \in 1..Len(n) : n[j] # "/"
                    /\ Len(n) < Len(path) => path[Len(path) - Len(n)] = "/"
        cuts == { d \in 1..Len(name) :
                    /\ name[d] = "."
                    /\ \A j \in (d + 1)..Len(name) : name[j] # "."
                    /\ \E j \in 1..(d - 1) : name[j] # "." }
    IN  IF cuts = {} THEN name
        ELSE SubSeq(name, 1, (CHOOSE d \in cuts : TRUE) - 1)

\* a directory and a relative name put together with exactly one "/"
\* between them, none when the directory is empty
JoinedWith(dir, name) ==
    IF dir = <<>> THEN name
    ELSE IF dir[Len(dir)] = "/" THEN dir \o name
    ELSE dir \o <<"/">> \o name

C6_ExpectedWords ==
    <<progName>>
    \o (IF IsSet(options.maxHits) THEN <<flagK, options.maxHits>> ELSE <<>>)
    \o (IF IsSet(options.nproc) THEN <<flagP, options.nproc>> ELSE <<>>)
    \o (IF options.algorithmOptions # None
        THEN WordsOf(options.algorithmOptions) ELSE <<>>)
    \o (IF IsSet(options.seed) THEN <<flagSeed, options.seed>> ELSE <<>>)
    \o <<flagX, JoinedWith(files.defaultRootDir, StemOf(files.targetFileName)),
         flagF, files.queryFileName, flagS, files.alignerSamOut>>

C6_CmdSegmentOrder ==
    pc = "cmd_done"
        => /\ WordsOf(cmdStr) = NonEmpty(C6_ExpectedWords)
           /\ options.algorithmOptions # None
                 => IsInfix(<<SP>> \o options.algorithmOptions \o <<SP>>, cmdStr)

(***************************************************************************)
(* C7: in _preProcess, if the indexing subprocess exits non-zero the call  *)
(* fails with the error that carries its diagnostic text, and neither      *)
(* RegisterExistingTmpFile nor the converter is ever called; if it exits   *)
(* 0, RegisterExistingTmpFile is called once for each of the six index     *)
(* paths, in the order 1.bt2, 2.bt2, 3.bt2, 4.bt2, rev.1.bt2, rev.2.bt2,   *)
(* with own = TRUE, all before the converter is called.                    *)
(***************************************************************************)
InPreProcess == pc \in {"pre_register", "pre_done", "pre_failed"}

C7_Suffixes ==
    << <<".", "1", ".", "b", "t", "2">>,
       <<".", "2", ".", "b", "t", "2">>,
       <<".", "3", ".", "b", "t", "2">>,
       <<".", "4", ".", "b", "t", "2">>,
       <<".", "r", "e", "v", ".", "1", ".", "b", "t", "2">>,
       <<".", "r", "e", "v", ".", "2", ".", "b", "t", "2">> >>

C7_IndexBase == JoinedWith(files.defaultRootDir, StemOf(files.referenceFile))

C7_RegisterOnlyAfterBuild ==
    InPreProcess
        => /\ calls[1].fn = "backticks"
           /\ proc.errCode # 0
                 => /\ pc = "pre_failed"
                    /\ err.type = "RuntimeError"
                    /\ err.text = proc.errMsg
                    /\ Len(calls) = 1
           /\ proc.errCode = 0 => pc # "pre_failed" /\ err = NoExc
           /\ \A n \in 2..Len(calls) :
                 IF n <= 7
                 THEN calls[n] = [fn |-> "RegisterExistingTmpFile",
                                  arg |-> C7_IndexBase \o C7_Suffixes[n - 1],
                                  own |-> TRUE]
                 ELSE n = 8 /\ calls[n].fn = "_pls2fasta"
           /\ pc = "pre_done" => Len(calls) = 8 /\ ret # None
           /\ pc = "pre_register" => Len(calls) < 8

\* the call returned after a successful build
C7_Witness == pc = "pre_done" /\ Len(calls) = 8 /\ proc.errCode = 0

(***************************************************************************)
(* C8 as stated: when the scan meets an ignored binary flag, that token    *)
(* and the token after it are left untouched, the scan goes on and the     *)
(* flag is neither consumed nor treated as a conflict.                     *)
(***************************************************************************)
C8_IgnoredBinaryUntouched ==
    [][ScanAt(ignoredBinaryOptions)
          => pc' = "scan" /\ items' = items /\ options' = options]_vars

(***************************************************************************)
(* C8 as amended: when the scan meets an ignored binary flag, that token   *)
(* and the token after it, if there is one, are removed from the token     *)
(* list, the index stays, no structured option changes and no error is     *)
(* raised.                                                                 *)
(***************************************************************************)
C8_IgnoredBinaryStripped ==
    [][ScanAt(ignoredBinaryOptions)
          => /\ pc' = "scan"
             /\ items' = SubSeq(items, 1, i) \o SubSeq(items, i + 3, Len(items))
             /\ i' = i
             /\ options' = options
             /\ err' = NoExc]_vars

\* a call returned whose input had an ignored binary flag followed by a
\* token, and no flag of another kind: two tokens are gone
C8_Witness ==
    /\ pc = "resolved"
    /\ options0.algorithmOptions # None
    /\ \E j \in 1..(Len(Orig) - 1) : Orig[j] \in ignoredBinaryOptions
    /\ ~HasToken(Orig, {flagK, flagL, flagP} \cup ignoredUnitaryOptions)
    /\ Len(items) = Len(Orig) - 2
    /\ options.algorithmOptions = Join(items)

(***************************************************************************)
(* C9: whenever _resolveAlgorithmOptions fails, algorithmOptions still     *)
(* holds the raw string and maxHits, minAnchorSize and seed are unchanged; *)
(* only nproc can differ from its value before the call, and only if a     *)
(* "-p N" pair of the input set it.                                        *)
(***************************************************************************)
C9_FailureFrame ==
    pc = "failed"
        => /\ options.algorithmOptions = options0.algorithmOptions
           /\ options.maxHits = options0.maxHits
           /\ options.minAnchorSize = options0.minAnchorSize
           /\ options.seed = options0.seed
           /\ options.nproc # options0.nproc
                 => /\ options0.nproc = None
                    /\ \E j \in 1..Len(Orig) :
                          /\ IsPair(Orig, j, flagP)
                          /\ options.nproc = IntStr(IntVal(Orig[j + 1]))

\* a call failed after a "-p N" pair had set nproc
C9_Witness == pc = "failed" /\ options.nproc # options0.nproc

(***************************************************************************)
(* C10: the scan terminates: every iteration either raises or makes        *)
(* (number of tokens - index) smaller by at least one, so the iterations   *)
(* begun plus the tokens still to scan never exceed the tokens of the      *)
(* input, no scan is cut short by IterCap and each ends, in a return or in *)
(* a raised error, after at most as many iterations as the input has       *)
(* tokens.                                                                 *)
(***************************************************************************)
C10_ScanTerminates ==
    /\ pc = "scan"
          => /\ i <= Len(items)
             /\ iters + (Len(items) - i) <= Len(Orig)
             /\ i < Len(items) => iters < IterCap
    /\ (Finished /\ options0.algorithmOptions # None) => iters <= Len(Orig)

\* a scan ended that had removed a unitary flag and a pair and had skipped
\* a token
C10_Witness ==
    /\ pc = "resolved"
    /\ options0.algorithmOptions # None
    /\ HasToken(Orig, ignoredUnitaryOptions)
    /\ HasToken(Orig, ignoredBinaryOptions)
    /\ Len(items) < Len(Orig)
    /\ i > 0
    /\ iters >= 3

====
